---- MODULE Spec2Model ----
(***************************************************************************)
(* A model of the AWSOpenSearch client adapter                             *)
(* (vectordb_bench/backend/clients/aws_opensearch/aws_opensearch.py).      *)
(*                                                                         *)
(* The adapter object (self.client, self.case_config), the scoped session *)
(* of init(), and the position of a running insert_embeddings call are    *)
(* the program's state.  The remote index (its settings, the documents it *)
(* stores and the documents a search can see) is the state the adapter's  *)
(* requests act on.  Every remote request may raise.                      *)
(***************************************************************************)
EXTENDS Integers, Sequences, FiniteSets, TLC

\* ------------------------------------------------------------- bounds

\* Longest embeddings / metadata list handed to insert_embeddings.
MaxBatch == 2
\* Most try-body attempts of one insert_embeddings call the model follows
\* (the code has no such limit; the last attempt followed must succeed).
MaxAttempts == 3
\* Largest k handed to search_embedding.
MaxK == 2

\* Document identifiers (metadata values) of the dataset.
Ids == {7, 12}

\* ---------------------------------------------------- program constants

number_of_shards == 5
SleepSeconds == 10
index_name == "vdb_bench_index"

Engines == {"nmslib", "faiss", "lucene"}
Metrics == {"L2", "COSINE", "IP"}
CaseConfigs == [engine : Engines, metric_type : Metrics]

\* The case configurations of the load-and-search runs: the one that needs
\* normalized vectors and one that does not.
RunCaseConfigs ==
    {[engine |-> "faiss", metric_type |-> "COSINE"],
     [engine |-> "nmslib", metric_type |-> "L2"]}

VARIABLES
    client,       \* self.client: "NoAdapter" | "None" | "open" | "deleted"
    case_config,  \* self.case_config
    inCtx,        \* the harness is inside the body of `with init():`
    remote,       \* the remote index
    pc,           \* position of the running insert_embeddings call
    embeddings,   \* arguments of the running / last insert_embeddings call
    metadata,
    insert_data,  \* local insert_data of the running attempt
    tries,        \* how each run of the try body of the call ended
    submitted,    \* the actions handed to each parallel_bulk call
    sleeps,       \* durations of the time.sleep calls of the call
    reqs,         \* remote requests issued by the running / last call
    ret,          \* the running / last call and how it ended
    result,       \* value returned by the last call
    hits,         \* _id of each hit of the last search response
    loaded        \* ids handed to the inserts that returned with no failed
                  \* document, since the index was created

vars == <<client, case_config, inCtx, remote, pc, embeddings, metadata,
          insert_data, tries, submitted, sleeps, reqs, ret, result, hits,
          loaded>>

\* ------------------------------------------------- identifiers as text

Digits == <<"0", "1", "2", "3", "4", "5", "6", "7", "8", "9">>

DigitVal(c) == (CHOOSE d \in 1..10 : Digits[d] = c) - 1

\* str(n) for n >= 0: the _id of a document in a response is text.
RECURSIVE IntToStr(_)
IntToStr(n) ==
    IF n < 10 THEN <<Digits[n + 1]>>
    ELSE Append(IntToStr(n \div 10), Digits[(n % 10) + 1])

RECURSIVE StrToIntAcc(_, _)
StrToIntAcc(s, acc) ==
    IF s = <<>> THEN acc
    ELSE StrToIntAcc(Tail(s), acc * 10 + DigitVal(Head(s)))

\* int(s)
StrToInt(s) == StrToIntAcc(s, 0)

\* ------------------------------------------------------ the remote index

NoIndex ==
    [exists |-> FALSE, knn |-> FALSE, refresh_interval |-> "",
     number_of_replicas |-> 0, number_of_shards |-> 0,
     docs |-> {}, visible |-> {}]

\* settings of _create_index
CreateSettings ==
    [knn |-> TRUE, refresh_interval |-> "-1", number_of_replicas |-> 0,
     number_of_shards |-> number_of_shards]

\* body of the settings update of optimize
OptimizeSettings == [refresh_interval |-> "60s", number_of_replicas |-> 1]

\* the engine's own defaults, for an index a bulk request creates
DefaultSettings ==
    [knn |-> FALSE, refresh_interval |-> "1s", number_of_replicas |-> 1,
     number_of_shards |-> 1]

IndexWith(s) ==
    [exists |-> TRUE, knn |-> s.knn, refresh_interval |-> s.refresh_interval,
     number_of_replicas |-> s.number_of_replicas,
     number_of_shards |-> s.number_of_shards, docs |-> {}, visible |-> {}]

\* client.indices.create(index, body): an existing index is refused.
IndicesCreate(r, s) == IndexWith(s)

\* client.indices.delete(index)
IndicesDelete(r) == NoIndex

\* The documents of a bulk request the engine accepted: upsert by _id, into
\* an index the engine creates with its defaults when there is none.
BulkIndex(r, docIds) ==
    LET base == IF r.exists THEN r ELSE IndexWith(DefaultSettings)
    IN  IF docIds = {} THEN r ELSE [base EXCEPT !.docs = @ \cup docIds]

PutSettings(r, body) ==
    [r EXCEPT !.refresh_interval = body.refresh_interval,
              !.number_of_replicas = body.number_of_replicas]

\* POST /<index>/_refresh: every stored document becomes searchable.
Refresh(r) == [r EXCEPT !.visible = r.docs]

\* What a request does to the index when the engine serves it.
Apply(r, rq) ==
    CASE rq = "delete" -> IndicesDelete(r)
      [] rq = "create" -> IndicesCreate(r, CreateSettings)
      [] rq = "put_settings" -> PutSettings(r, OptimizeSettings)
      [] rq = "refresh" -> Refresh(r)
      [] OTHER -> r

\* Requests the engine always answers with an error.
Refused(r, rq) ==
    CASE rq = "exists" -> FALSE
      [] rq = "create" -> r.exists
      [] OTHER -> ~r.exists

\* The requests of `plan` issued in order until one raises: the failAt-th
\* request raises (0: none is made to), and so does a refused one.
RECURSIVE Run(_, _, _, _)
Run(r, plan, failAt, done) ==
    IF plan = <<>> THEN [remote |-> r, reqs |-> done, raised |-> FALSE]
    ELSE LET rq == Head(plan)
         IN  IF failAt = Len(done) + 1 \/ Refused(r, rq)
             THEN [remote |-> r, reqs |-> Append(done, rq), raised |-> TRUE]
             ELSE Run(Apply(r, rq), Tail(plan), failAt, Append(done, rq))

\* Responses of a k-NN search of size k: at most k searchable documents,
\* ranked by the engine, each once.
SearchResponses(r, k) ==
    {h \in UNION {[1..n -> r.visible] : n \in 0..k} :
        \A i, j \in DOMAIN h : i # j => h[i] # h[j]}

\* ids of `ids` whose documents the index still stores
StillStored(ids, r) == {i \in ids : IntToStr(i) \in r.docs}

\* ----------------------------------------------------------- the adapter

NoCall == [op |-> "none", outcome |-> "none", arg |-> <<>>]

Init ==
    /\ client = "NoAdapter"
    /\ case_config \in RunCaseConfigs
    /\ inCtx = FALSE
    /\ remote = NoIndex
    /\ pc = "idle"
    /\ embeddings = <<>>
    /\ metadata = <<>>
    /\ insert_data = <<>>
    /\ tries = <<>>
    /\ submitted = <<>>
    /\ sleeps = <<>>
    /\ reqs = <<>>
    /\ ret = NoCall
    /\ result = <<>>
    /\ hits = <<>>
    /\ loaded = {}

\* What a call leaves of the call before it.
ClearCall ==
    /\ embeddings' = <<>>
    /\ metadata' = <<>>
    /\ insert_data' = <<>>
    /\ tries' = <<>>
    /\ submitted' = <<>>
    /\ sleeps' = <<>>
    /\ hits' = <<>>

\* assert self.client is not None: the error the statement raises, or "ok".
\* After `del self.client` the attribute lookup itself raises.
Precondition(c) ==
    CASE c = "None" -> "AssertionError"
      [] c = "deleted" -> "AttributeError"
      [] OTHER -> "ok"

\* The constructor never deleting the old index.
ConfigureRequests_NoDelete(drop_old, existed) ==
    IF drop_old THEN <<"exists", "create">> ELSE <<>>

\* __init__, lines 39-44: the requests of the constructor.
ConfigureRequests(drop_old, existed) ==
    IF drop_old
    THEN <<"exists">> \o (IF existed THEN <<"delete">> ELSE <<>>) \o <<"create">>
    ELSE <<>>

\* __init__, with db_case_config drawn from cfgs
Construct(cfgs) ==
    /\ pc = "idle"
    /\ ~inCtx
    /\ \E drop_old \in BOOLEAN, cfg \in cfgs, failAt \in 0..3 :
         LET plan == ConfigureRequests(drop_old, remote.exists)
             run == Run(remote, plan, failAt, <<>>)
         IN  /\ failAt <= Len(plan)
             /\ client' = IF run.raised THEN "NoAdapter" ELSE "None"
             /\ case_config' = cfg
             /\ remote' = run.remote
             /\ reqs' = run.reqs
             /\ ret' = [op |-> "__init__",
                        outcome |-> IF run.raised THEN "RemoteError" ELSE "returned",
                        arg |-> [drop_old |-> drop_old, existed |-> remote.exists,
                                 old |-> remote.docs]]
             /\ loaded' = StillStored(loaded, run.remote)
    /\ result' = <<>>
    /\ ClearCall
    /\ UNCHANGED <<inCtx, pc>>

Configure == Construct(RunCaseConfigs)

\* init(), line 92: entering the with block.
Open ==
    /\ pc = "idle"
    /\ client # "NoAdapter"
    /\ ~inCtx
    /\ client' = "open"
    /\ inCtx' = TRUE
    /\ ret' = [op |-> "init", outcome |-> "returned", arg |-> <<>>]
    /\ reqs' = <<>>
    /\ result' = <<>>
    /\ ClearCall
    /\ UNCHANGED <<case_config, remote, pc, loaded>>

\* init(), lines 94-97: the body of the with block ended normally.
ExitNormal ==
    /\ pc = "idle"
    /\ inCtx
    /\ client' = "deleted"
    /\ inCtx' = FALSE
    /\ ret' = [op |-> "exit", outcome |-> "returned", arg |-> <<>>]
    /\ reqs' = <<>>
    /\ result' = <<>>
    /\ ClearCall
    /\ UNCHANGED <<case_config, remote, pc, loaded>>

\* init(), line 94: the body of the with block raised.  The exception is
\* thrown into the generator at the yield, which no try/finally encloses:
\* lines 96-97 do not run and the exception leaves the with statement.
ExitRaise ==
    /\ pc = "idle"
    /\ inCtx
    /\ inCtx' = FALSE
    /\ ret' = [op |-> "exit", outcome |-> "raised", arg |-> <<>>]
    /\ reqs' = <<>>
    /\ result' = <<>>
    /\ ClearCall
    /\ UNCHANGED <<client, case_config, remote, pc, loaded>>

\* ------------------------------------------------------ insert_embeddings

\* The rows of the dataset: the vector of the row with identifier id.
VecOf(id) == <<id, id + 1>>

Batches(S) == UNION {[1..n -> S] : n \in 0..MaxBatch}

\* lines 108-113: insert_data, one action per embedding, paired with
\* metadata[i].  A metadata list that is too short raises IndexError.
BuildInsertData(emb, meta) ==
    [i \in 1..Len(emb) |->
        [index |-> index_name, id |-> meta[i], embedding |-> emb[i]]]

\* The recursive call given an iterator the first call has used up.
RetryEmbeddings_Exhausted(emb) == <<>>

\* line 133: the embeddings the recursive call is given.
RetryEmbeddings(emb) == emb

\* The call returning the number of documents the response confirmed.
InsertReturnValue_Succeeded(count, nSucceeded) == <<nSucceeded, "None">>

\* line 129
InsertReturnValue(count, nSucceeded) == <<count, "None">>

\* the _id of the documents at positions P of the actions
DocIds(data, P) == {IntToStr(data[i].id) : i \in P}

\* lines 99-113 of the outermost call
InsertCall ==
    /\ pc = "idle"
    /\ client # "NoAdapter"
    /\ \E rows \in Batches(Ids), short \in {"neither", "embeddings", "metadata"} :
         LET n == IF short = "embeddings" THEN Len(rows) - 1 ELSE Len(rows)
             m == IF short = "metadata" THEN Len(rows) - 1 ELSE Len(rows)
             emb == [i \in 1..n |-> VecOf(rows[i])]
             meta == SubSeq(rows, 1, m)
         IN  /\ short # "neither" => rows # <<>>
             /\ embeddings' = emb
             /\ metadata' = meta
             /\ IF Precondition(client) # "ok"
                THEN /\ ret' = [op |-> "insert_embeddings",
                                outcome |-> Precondition(client), arg |-> <<>>]
                     /\ insert_data' = <<>>
                     /\ pc' = "idle"
                ELSE IF Len(meta) < Len(emb)
                THEN /\ ret' = [op |-> "insert_embeddings",
                                outcome |-> "IndexError", arg |-> <<>>]
                     /\ insert_data' = <<>>
                     /\ pc' = "idle"
                ELSE /\ ret' = [op |-> "insert_embeddings",
                                outcome |-> "running", arg |-> <<>>]
                     /\ insert_data' = BuildInsertData(emb, meta)
                     /\ pc' = "bulk"
    /\ tries' = <<>>
    /\ submitted' = <<>>
    /\ sleeps' = <<>>
    /\ reqs' = <<>>
    /\ result' = <<>>
    /\ hits' = <<>>
    /\ UNCHANGED <<client, case_config, inCtx, remote, loaded>>

\* lines 115-129: parallel_bulk runs to its end, its response reporting the
\* documents at positions F as failed and the others as indexed; the stats
\* request is answered and the call returns.
InsertReturn ==
    /\ pc = "bulk"
    /\ \E F \in SUBSET DOMAIN insert_data :
         /\ remote' = BulkIndex(remote, DocIds(insert_data, DOMAIN insert_data \ F))
         /\ result' = InsertReturnValue(Len(insert_data),
                                        Len(insert_data) - Cardinality(F))
         /\ loaded' = IF F = {}
                      THEN loaded \cup {insert_data[i].id : i \in DOMAIN insert_data}
                      ELSE loaded
    /\ tries' = Append(tries, "ok")
    /\ submitted' = Append(submitted, insert_data)
    /\ reqs' = reqs \o <<"bulk", "stats">>
    /\ ret' = [ret EXCEPT !.outcome = "returned"]
    /\ pc' = "idle"
    /\ UNCHANGED <<client, case_config, inCtx, embeddings, metadata,
                   insert_data, sleeps, hits>>

\* lines 130-133: the handler sleeps and calls insert_embeddings again, which
\* runs lines 106-113 again on the arguments it is given.
Retry ==
    /\ sleeps' = Append(sleeps, SleepSeconds)
    /\ insert_data' = BuildInsertData(RetryEmbeddings(embeddings), metadata)
    /\ pc' = "bulk"

\* line 120 raises, after the engine has indexed the documents at positions
\* P; the handler retries.
InsertBulkRaise ==
    /\ pc = "bulk"
    /\ Len(submitted) + 1 < MaxAttempts
    /\ \E P \in SUBSET DOMAIN insert_data :
         remote' = BulkIndex(remote, DocIds(insert_data, P))
    /\ submitted' = Append(submitted, insert_data)
    /\ reqs' = Append(reqs, "bulk")
    /\ tries' = Append(tries, "bulk_raised")
    /\ Retry
    /\ UNCHANGED <<client, case_config, inCtx, embeddings, metadata, ret,
                   result, hits, loaded>>

\* parallel_bulk runs to its end and line 127 raises; the handler retries.
InsertStatsRaise ==
    /\ pc = "bulk"
    /\ Len(submitted) + 1 < MaxAttempts
    /\ \E F \in SUBSET DOMAIN insert_data :
         remote' = BulkIndex(remote, DocIds(insert_data, DOMAIN insert_data \ F))
    /\ submitted' = Append(submitted, insert_data)
    /\ reqs' = reqs \o <<"bulk", "stats">>
    /\ tries' = Append(tries, "stats_raised")
    /\ Retry
    /\ UNCHANGED <<client, case_config, inCtx, embeddings, metadata, ret,
                   result, hits, loaded>>

\* ------------------------------------------------------- search_embedding

\* The hits returned last first.
HitIds_Reversed(h) == [i \in 1..Len(h) |-> StrToInt(h[Len(h) + 1 - i])]

\* line 165
HitIds(h) == [i \in 1..Len(h) |-> StrToInt(h[i])]

\* A handler that sleeps and searches again, as that of insert does.
SearchFailure_Retry ==
    [reqs |-> <<"search", "search">>, sleeps |-> <<SleepSeconds>>,
     outcome |-> "RemoteError"]

\* lines 169-171: what the handler of a raised search leaves behind.
SearchFailure == [reqs |-> <<"search">>, sleeps |-> <<>>, outcome |-> "RemoteError"]

\* search_embedding
Search ==
    /\ pc = "idle"
    /\ client # "NoAdapter"
    /\ \E k \in 1..MaxK :
         \/ /\ Precondition(client) # "ok"
            /\ ret' = [op |-> "search_embedding", outcome |-> Precondition(client),
                       arg |-> k]
            /\ reqs' = <<>>
            /\ sleeps' = <<>>
            /\ hits' = <<>>
            /\ result' = <<>>
         \/ /\ Precondition(client) = "ok"
            /\ ret' = [op |-> "search_embedding", outcome |-> SearchFailure.outcome,
                       arg |-> k]
            /\ reqs' = SearchFailure.reqs
            /\ sleeps' = SearchFailure.sleeps
            /\ hits' = <<>>
            /\ result' = <<>>
         \/ /\ Precondition(client) = "ok"
            /\ remote.exists
            /\ remote.knn
            /\ ret' = [op |-> "search_embedding", outcome |-> "returned", arg |-> k]
            /\ \E h \in SearchResponses(remote, k) :
                 /\ hits' = h
                 /\ result' = HitIds(h)
            /\ reqs' = <<"search">>
            /\ sleeps' = <<>>
    /\ embeddings' = <<>>
    /\ metadata' = <<>>
    /\ insert_data' = <<>>
    /\ tries' = <<>>
    /\ submitted' = <<>>
    /\ UNCHANGED <<client, case_config, inCtx, remote, pc, loaded>>

\* --------------------------------------------------------------- optimize

\* optimize without the forced refresh.
OptimizeRequests_NoRefresh == <<"put_settings", "warmup">>

\* lines 185-194: the requests of optimize, in the order they are issued.
OptimizeRequests == <<"put_settings", "refresh", "warmup">>

\* optimize
Optimize ==
    /\ pc = "idle"
    /\ client # "NoAdapter"
    /\ \/ /\ Precondition(client) # "ok"
          /\ ret' = [op |-> "optimize", outcome |-> Precondition(client), arg |-> <<>>]
          /\ reqs' = <<>>
          /\ UNCHANGED remote
       \/ /\ Precondition(client) = "ok"
          /\ \E failAt \in 0..Len(OptimizeRequests) :
               LET run == Run(remote, OptimizeRequests, failAt, <<>>)
               IN  /\ remote' = run.remote
                   /\ reqs' = run.reqs
                   /\ ret' = [op |-> "optimize",
                              outcome |-> IF run.raised THEN "RemoteError"
                                          ELSE "returned",
                              arg |-> <<>>]
    /\ result' = <<>>
    /\ ClearCall
    /\ UNCHANGED <<client, case_config, inCtx, pc, loaded>>

\* ready_to_load
ReadyToLoad ==
    /\ pc = "idle"
    /\ client # "NoAdapter"
    /\ ret' = [op |-> "ready_to_load", outcome |-> "returned", arg |-> <<>>]
    /\ reqs' = <<>>
    /\ result' = <<>>
    /\ ClearCall
    /\ UNCHANGED <<client, case_config, inCtx, remote, pc, loaded>>

\* The test of the metric left out.
need_normalize_cosine_AnyMetric(cfg) == cfg.engine = "faiss"

\* need_normalize_cosine, lines 201-206
need_normalize_cosine(cfg) ==
    IF cfg.engine = "faiss" /\ cfg.metric_type = "COSINE" THEN TRUE ELSE FALSE

NeedNormalizeCosine ==
    /\ pc = "idle"
    /\ client # "NoAdapter"
    /\ ret' = [op |-> "need_normalize_cosine", outcome |-> "returned", arg |-> <<>>]
    /\ result' = need_normalize_cosine(case_config)
    /\ reqs' = <<>>
    /\ ClearCall
    /\ UNCHANGED <<client, case_config, inCtx, remote, pc, loaded>>

\* ------------------------------------------------------------- the engine

\* The engine refreshes an index on its own unless refresh_interval is -1.
EngineRefresh ==
    /\ remote.exists
    /\ remote.refresh_interval # "-1"
    /\ remote.visible # remote.docs
    /\ remote' = Refresh(remote)
    /\ UNCHANGED <<client, case_config, inCtx, pc, embeddings, metadata,
                   insert_data, tries, submitted, sleeps, reqs, ret, result,
                   hits, loaded>>

Next ==
    \/ Configure
    \/ Open
    \/ ExitNormal
    \/ ExitRaise
    \/ InsertCall
    \/ InsertReturn
    \/ InsertBulkRaise
    \/ InsertStatsRaise
    \/ Search
    \/ Optimize
    \/ ReadyToLoad
    \/ NeedNormalizeCosine
    \/ EngineRefresh

Spec == Init /\ [][Next]_vars

\* The adapter constructed with every case configuration, and the calls
\* that need no loaded index.
InitConfig ==
    /\ client = "NoAdapter"
    /\ case_config \in CaseConfigs
    /\ inCtx = FALSE
    /\ remote = NoIndex
    /\ pc = "idle"
    /\ embeddings = <<>>
    /\ metadata = <<>>
    /\ insert_data = <<>>
    /\ tries = <<>>
    /\ submitted = <<>>
    /\ sleeps = <<>>
    /\ reqs = <<>>
    /\ ret = NoCall
    /\ result = <<>>
    /\ hits = <<>>
    /\ loaded = {}

ConfigureAny == Construct(CaseConfigs)

NextConfig ==
    \/ ConfigureAny
    \/ Open
    \/ ExitNormal
    \/ ExitRaise
    \/ Optimize
    \/ ReadyToLoad
    \/ NeedNormalizeCosine

SpecConfig == InitConfig /\ [][NextConfig]_vars

\* ------------------------------------------------------------ the claims

Returned(op) == ret.op = op /\ ret.outcome = "returned"

IsPrefix(a, b) == Len(a) <= Len(b) /\ SubSeq(b, 1, Len(a)) = a

\* C1: whenever control is back with the harness, outside the body of the
\* with block, the adapter holds no open client handle, whether the body
\* returned or raised.
C1_ReleasedOnEveryExit ==
    (pc = "idle" /\ ~inCtx) => client # "open"

\* C2: a call of insert_embeddings, search_embedding or optimize made while
\* the adapter has no active session (before the first init(), or after a
\* session was closed) fails with the precondition error, the AssertionError
\* of the assert statement, and issues no remote request.
C2_NoSessionPreconditionError ==
    (/\ client \in {"None", "deleted"}
     /\ ret.op \in {"insert_embeddings", "search_embedding", "optimize"})
    => (ret.outcome = "AssertionError" /\ reqs = <<>>)

\* C3: when the first bulk call of an insert of N embeddings raises and the
\* second run of the try body succeeds, the call returns (N, None) after
\* exactly two bulk calls and exactly one sleep of SleepSeconds, and the
\* second bulk call is handed the same N documents as the first, each
\* pairing embeddings[i] with metadata[i].
C3_TransientFailureRetriedOnce ==
    (/\ ret.op = "insert_embeddings"
     /\ Len(tries) >= 2
     /\ tries[1] = "bulk_raised"
     /\ tries[2] = "ok")
    => /\ ret.outcome = "returned"
       /\ Len(tries) = 2
       /\ result = <<Len(embeddings), "None">>
       /\ sleeps = <<SleepSeconds>>
       /\ Len(submitted) = 2
       /\ submitted[2] = submitted[1]
       /\ Len(submitted[1]) = Len(embeddings)
       /\ \A i \in 1..Len(embeddings) :
            /\ submitted[1][i].id = metadata[i]
            /\ submitted[1][i].embedding = embeddings[i]

C3_Witness ==
    /\ Returned("insert_embeddings")
    /\ tries = <<"bulk_raised", "ok">>
    /\ Len(embeddings) = 2
    /\ metadata[1] # metadata[2]

\* C4: one call of insert_embeddings makes at most two bulk calls, whatever
\* the remote engine answers.
C4_AtMostTwoBulkAttempts ==
    Len(submitted) <= 2

\* C5: whenever insert_embeddings returns, it returns (count, None) with
\* count the number of embeddings it was handed, whichever documents the
\* bulk response reported as failed.
C5_ReturnsAttemptedCount ==
    Returned("insert_embeddings") => result = <<Len(embeddings), "None">>

\* insert_embeddings returned 2 although a document it was handed is not in
\* the index.
C5_Witness ==
    /\ Returned("insert_embeddings")
    /\ result = <<2, "None">>
    /\ \E i \in DOMAIN insert_data : IntToStr(insert_data[i].id) \notin remote.docs

\* C6: when optimize returns, it has issued the settings update, the forced
\* refresh and the warmup, in that order; the index has refresh interval 60s
\* and one replica; and every document of the inserts that returned with no
\* failed document since the index was created is visible to search.
C6_OptimizeMakesLoadedVisible ==
    Returned("optimize")
    => /\ reqs = <<"put_settings", "refresh", "warmup">>
       /\ remote.exists
       /\ remote.refresh_interval = "60s"
       /\ remote.number_of_replicas = 1
       /\ {IntToStr(i) : i \in loaded} \subseteq remote.visible
       /\ Cardinality(remote.visible) >= Cardinality(loaded)

\* optimize returned on an index made by _create_index into which two
\* documents with distinct identifiers were inserted.
C6_Witness ==
    /\ Returned("optimize")
    /\ remote.knn
    /\ remote.number_of_shards = number_of_shards
    /\ Cardinality(loaded) = 2

C8_SearchErrorPropagatesOnce ==
    [][(Search /\ ret'.outcome = "RemoteError")
       => /\ reqs' = <<"search">>
          /\ sleeps' = <<>>
          /\ client = "open"
          /\ client' = "open"
          /\ UNCHANGED <<case_config, inCtx, remote, pc>>]_vars

C8_Witness ==
    /\ ret.op = "search_embedding"
    /\ ret.outcome = "RemoteError"
    /\ client = "open"
    /\ remote.knn
    /\ remote.visible # {}

\* C9: a constructor called with drop_old issues exists, delete only if the
\* index existed, and create, in that order, and when it returns the index
\* exists with the settings of _create_index and holds no document; called
\* without drop_old it issues no request; a constructor whose create was
\* refused or raised raises, leaving no adapter.
C9_ConfigureDropsThenCreates ==
    ret.op = "__init__"
    => LET a == ret.arg
           plan == IF a.existed THEN <<"exists", "delete", "create">>
                   ELSE <<"exists", "create">>
       IN  /\ ~a.drop_old => (reqs = <<>> /\ ret.outcome = "returned")
           /\ a.drop_old => (reqs # <<>> /\ IsPrefix(reqs, plan))
           /\ (a.drop_old /\ ret.outcome = "returned")
              => /\ reqs = plan
                 /\ remote = IndexWith(CreateSettings)
           /\ (a.drop_old /\ reqs = plan /\ remote # IndexWith(CreateSettings))
              => (ret.outcome = "RemoteError" /\ client = "NoAdapter")

\* the constructor returned after deleting an index that held documents
C9_Witness ==
    /\ Returned("__init__")
    /\ ret.arg.drop_old
    /\ ret.arg.existed
    /\ ret.arg.old # {}
    /\ reqs = <<"exists", "delete", "create">>
    /\ remote.docs = {}

\* C10: need_normalize_cosine returns true exactly when the engine is faiss
\* and the metric is COSINE; the call issues no request and changes neither
\* the adapter nor the index.
C10_NormalizeIffFaissCosine ==
    [][NeedNormalizeCosine
       => /\ result' = (case_config.engine = "faiss"
                         /\ case_config.metric_type = "COSINE")
          /\ reqs' = <<>>
          /\ UNCHANGED <<client, case_config, inCtx, remote, pc>>]_vars

C10_Witness ==
    /\ Returned("need_normalize_cosine")
    /\ case_config = [engine |-> "faiss", metric_type |-> "COSINE"]
    /\ result = TRUE

====
